---- MODULE Spec2Model ----
(***************************************************************************)
(* Value-flow reconciliation engine of corp_ledger.py.                     *)
(*                                                                         *)
(* The SQLite tables are sequences of rows in rowid order.  A nullable     *)
(* column holds NULL (the empty tuple) or Some(v) (a one-element tuple).   *)
(* ISK amounts of the source tables are integers; member_flows.value_isk   *)
(* is kept in hundredths of an ISK, so that the 10% subsidy credit and the *)
(* 1% market credit are exact (floating-point rounding is not modelled).   *)
(* Columns that no derivation rule reads (dates, locations, raw_json, ...) *)
(* are left out; created_at and the AUTOINCREMENT id of member_flows are   *)
(* left out too, the row order of the sequence stands for the id order.    *)
(***************************************************************************)
EXTENDS Integers, Sequences, FiniteSets

(***************************************************************************)
(* Nullable values and sequence helpers                                    *)
(***************************************************************************)
NULL == <<>>

Some(v) == <<v>>

IsNull(x) == x = <<>>

Val(x) == x[1]

\* Python's `x or 0` on a nullable number
OrZero(x) == IF IsNull(x) THEN 0 ELSE Val(x)

Range(s) == {s[i] : i \in DOMAIN s}

Count(s, r) == Cardinality({i \in DOMAIN s : s[i] = r})

\* equal as multisets of rows (equal up to row order)
SameRows(s, t) ==
    /\ Len(s) = Len(t)
    /\ \A r \in Range(s) \cup Range(t) : Count(s, r) = Count(t, r)

\* an ISK amount written to member_flows.value_isk, in hundredths of an ISK
Centi(x) == 100 * x

(***************************************************************************)
(* Bounds and input domains                                                *)
(***************************************************************************)
\* most rows the four source tables hold together
MaxRows == 2

ExtIds == {1, 2}

Members == {NULL, Some(1)}

VARIABLES
    wallet_journal,   \* rows [esi_id, ref_type, amount, first_party_id, description]
    donations,        \* rows [journal_esi_id, character_id, amount, description]
    contracts,        \* rows [contract_id, issuer_id, assignee_id, status,
                      \*       for_corporation, price, janice_immediate_split]
    contract_items,   \* rows [contract_id, record_id, type_id, is_included]
    industry_jobs,    \* rows [job_id, installer_id, cost, status]
    market_orders,    \* rows [order_id, issued_by, price, volume_total,
                      \*       volume_remain, is_buy_order, is_history]
    member_flows,     \* the committed Flow Ledger, what any connection reads
    txn_flows,        \* member_flows inside the rebuild's open transaction
    pc,               \* where rebuild_member_flows stands ("idle": not running)
    ledger_state,     \* history: "current" iff no source row changed since the
                      \* last committed rebuild, else "stale"
    type_names,       \* the type_id values cached in table type_names
    list_pc,          \* where cmd_list_contracts stands ("idle": not started)
    list_todo,        \* the rows of its SELECT that its loop has yet to handle
    list_key,         \* whether cfg.janice_api_key is set in that run
    share_unit_isk,   \* option custom.share_unit_isk of the config.yaml that
                      \* the last dashboard or export-dataset run loaded
    report            \* what that run printed

\* the state of cmd_list_contracts
listing == <<type_names, list_pc, list_todo, list_key>>

\* the state of the reporting commands
reporting == <<share_unit_isk, report>>

vars == <<wallet_journal, donations, contracts, contract_items, industry_jobs,
          market_orders, member_flows, txn_flows, pc, ledger_state,
          listing, reporting>>

sources == <<donations, contracts, industry_jobs, market_orders>>

TotalRows == Len(wallet_journal) + Len(contracts) + Len(industry_jobs)
             + Len(market_orders)

\* "stale" as soon as a table the rebuild reads differs as a multiset of rows
Staleness(d, c, j, m) ==
    IF /\ SameRows(d, donations)
       /\ SameRows(c, contracts)
       /\ SameRows(j, industry_jobs)
       /\ SameRows(m, market_orders)
    THEN ledger_state
    ELSE "stale"

(***************************************************************************)
(* Wallet journal and donations                                            *)
(***************************************************************************)
\* variant of JournalExists: the SELECT compares the row's own id (its place
\* in the table) with the external id
JournalExists_ByRowid(tbl, esi_id) == esi_id \in DOMAIN tbl

\* SELECT 1 FROM wallet_journal WHERE esi_id = ?
JournalExists(tbl, esi_id) == \E i \in DOMAIN tbl : tbl[i].esi_id = esi_id

\* the loop over the rows of the fetched pages: a row whose esi_id is stored
\* is skipped, any other row is inserted
RECURSIVE InsertJournalRows(_, _)
InsertJournalRows(tbl, data) ==
    IF data = <<>> THEN tbl
    ELSE LET row == Head(data)
         IN IF JournalExists(tbl, row.esi_id)
            THEN InsertJournalRows(tbl, Tail(data))
            ELSE InsertJournalRows(Append(tbl, row), Tail(data))

sync_wallet_journal(data) ==
    /\ pc = "idle"
    /\ LET tbl == InsertJournalRows(wallet_journal, data)
       IN /\ TotalRows - Len(wallet_journal) + Len(tbl) <= MaxRows
          /\ wallet_journal' = tbl
    /\ UNCHANGED <<listing, reporting>>
    /\ UNCHANGED <<donations, contracts, contract_items, industry_jobs,
                   market_orders, member_flows, txn_flows, pc, ledger_state>>

DonationExists(tbl, esi_id) == \E i \in DOMAIN tbl : tbl[i].journal_esi_id = esi_id

\* variant of NewDonationEntries: the SELECT without its NOT IN condition
NewDonationEntries_All(journal, tbl) ==
    SelectSeq(journal, LAMBDA e : e.ref_type = "player_donation")

\* the SELECT: donation-tagged entries with no donation row yet
NewDonationEntries(journal, tbl) ==
    SelectSeq(journal, LAMBDA e : /\ e.ref_type = "player_donation"
                                  /\ ~DonationExists(tbl, e.esi_id))

\* one donation row, from the entry's raw_json
DonationOf(e) ==
    [journal_esi_id |-> e.esi_id,
     character_id   |-> e.first_party_id,
     amount         |-> e.amount,
     description    |-> IF IsNull(e.description) THEN "" ELSE Val(e.description)]

RECURSIVE InsertDonations(_, _)
InsertDonations(tbl, rows) ==
    IF rows = <<>> THEN tbl
    ELSE InsertDonations(Append(tbl, DonationOf(Head(rows))), Tail(rows))

update_donations_from_journal ==
    /\ pc = "idle"
    /\ LET tbl == InsertDonations(donations,
                                  NewDonationEntries(wallet_journal, donations))
       IN /\ donations' = tbl
          /\ ledger_state' = Staleness(tbl, contracts, industry_jobs, market_orders)
    /\ UNCHANGED <<listing, reporting>>
    /\ UNCHANGED <<wallet_journal, contracts, contract_items, industry_jobs,
                   market_orders, member_flows, txn_flows, pc>>

(***************************************************************************)
(* Contracts, their items and their appraisal                              *)
(***************************************************************************)
ContractExists(tbl, contract_id) ==
    \E i \in DOMAIN tbl : tbl[i].contract_id = contract_id

\* int(row.get("for_corporation") or 0)
ForCorporationFlag(x) == IF IsNull(x) THEN 0 ELSE IF Val(x) THEN 1 ELSE 0

\* the row INSERTed for a fetched contract; the appraisal column starts NULL
ContractRow(row) ==
    [contract_id            |-> row.contract_id,
     issuer_id              |-> row.issuer_id,
     assignee_id            |-> row.assignee_id,
     status                 |-> row.status,
     for_corporation        |-> ForCorporationFlag(row.for_corporation),
     price                  |-> row.price,
     janice_immediate_split |-> NULL]

ItemExists(tbl, contract_id, record_id) ==
    \E i \in DOMAIN tbl : /\ tbl[i].contract_id = contract_id
                          /\ tbl[i].record_id = record_id

\* sync_contract_items_for_contract: INSERT OR IGNORE under
\* UNIQUE(contract_id, record_id); is_included is stored as 1 or 0
RECURSIVE InsertItems(_, _, _)
InsertItems(tbl, contract_id, data) ==
    IF data = <<>> THEN tbl
    ELSE LET item == Head(data)
             new  == [contract_id |-> contract_id,
                      record_id   |-> item.record_id,
                      type_id     |-> item.type_id,
                      is_included |-> IF item.is_included THEN 1 ELSE 0]
         IN IF ItemExists(tbl, contract_id, item.record_id)
            THEN InsertItems(tbl, contract_id, Tail(data))
            ELSE InsertItems(Append(tbl, new), contract_id, Tail(data))

\* variant of InsertContracts: a stored contract takes the status of the feed
RECURSIVE InsertContracts_Refresh(_, _)
InsertContracts_Refresh(tbl, data) ==
    IF data = <<>> THEN tbl
    ELSE LET row == Head(data)
         IN IF ContractExists(tbl, row.contract_id)
            THEN InsertContracts_Refresh(
                     [i \in DOMAIN tbl |->
                         IF tbl[i].contract_id = row.contract_id
                         THEN [tbl[i] EXCEPT !.status = row.status]
                         ELSE tbl[i]],
                     Tail(data))
            ELSE InsertContracts_Refresh(Append(tbl, ContractRow(row)), Tail(data))

\* the loop over the fetched contracts; each element of data is a contract
\* of the feed with the answer of its items endpoint
RECURSIVE InsertContracts(_, _)
InsertContracts(tbl, data) ==
    IF data = <<>> THEN tbl
    ELSE LET row == Head(data)
         IN IF ContractExists(tbl, row.contract_id)
            THEN InsertContracts(tbl, Tail(data))
            ELSE InsertContracts(Append(tbl, ContractRow(row)), Tail(data))

RECURSIVE InsertContractItems(_, _)
InsertContractItems(tbl, data) ==
    IF data = <<>> THEN tbl
    ELSE InsertContractItems(
             InsertItems(tbl, Head(data).contract_id, Head(data).items),
             Tail(data))

sync_contracts(data) ==
    /\ pc = "idle"
    /\ LET tbl == InsertContracts(contracts, data)
       IN /\ TotalRows - Len(contracts) + Len(tbl) <= MaxRows
          /\ contracts' = tbl
          /\ ledger_state' = Staleness(donations, tbl, industry_jobs, market_orders)
    /\ contract_items' = InsertContractItems(contract_items, data)
    /\ UNCHANGED <<listing, reporting>>
    /\ UNCHANGED <<wallet_journal, donations, industry_jobs, market_orders,
                   member_flows, txn_flows, pc>>

IncludedItems(tbl, contract_id) ==
    SelectSeq(tbl, LAMBDA it : it.contract_id = contract_id /\ it.is_included = 1)

\* UPDATE contracts SET janice_immediate_split = ? WHERE contract_id = ?
SetAppraisal(tbl, contract_id, value) ==
    [i \in DOMAIN tbl |->
        IF tbl[i].contract_id = contract_id
        THEN [tbl[i] EXCEPT !.janice_immediate_split = value]
        ELSE tbl[i]]

\* what a request to ESI comes to: an answer, an HTTP error status
\* (requests.HTTPError from raise_for_status), or a failure of the transport
\* (requests.ConnectionError, requests.Timeout)
EsiOutcomes == {"ok", "http_error", "network_error"}

\* INSERT OR REPLACE INTO type_names (type_id, name): type_id is the INTEGER
\* PRIMARY KEY, so a NULL type_id is stored under the next free rowid
CacheTypeName(cache, type_id) ==
    IF IsNull(type_id)
    THEN cache \cup {IF cache = {} THEN 1
                     ELSE 1 + CHOOSE m \in cache : \A n \in cache : n <= m}
    ELSE cache \cup {Val(type_id)}

\* get_type_name: a cached name is returned without a request; otherwise the
\* name is fetched, an HTTPError is caught (the name becomes "type:<id>") and
\* the name is cached; any other exception of the request leaves the function
get_type_name(cache, type_id, esi) ==
    IF ~IsNull(type_id) /\ Val(type_id) \in cache
    THEN [type_names |-> cache, raised |-> FALSE]
    ELSE IF esi = "network_error"
    THEN [type_names |-> cache, raised |-> TRUE]
    ELSE [type_names |-> CacheTypeName(cache, type_id), raised |-> FALSE]

\* a loop that calls get_type_name for each row, outside any try: the first
\* call that raises ends it
RECURSIVE ResolveNames(_, _, _)
ResolveNames(cache, rows, esi) ==
    IF rows = <<>> THEN [type_names |-> cache, raised |-> FALSE]
    ELSE LET r == get_type_name(cache, Head(rows).type_id, esi)
         IN IF r.raised THEN r
            ELSE ResolveNames(r.type_names, Tail(rows), esi)

\* the function janice_appraise_contract.  api_key: whether cfg.janice_api_key
\* is set; esi: what the requests of get_type_name come to; raises: whether
\* anything in the try block (the POST, raise_for_status, the JSON) raises;
\* answer: the totalSplitPrice of the response (NULL when it has none).
\* Result: the tables after the call, whether the call raised to its caller,
\* and the value returned otherwise.
AppraiseContract(tbl, items, cache, contract_id, api_key, esi, raises, answer) ==
    LET rows  == IncludedItems(items, contract_id)
        names == ResolveNames(cache, rows, esi)
    IN IF ~api_key \/ rows = <<>>
       THEN [contracts |-> tbl, type_names |-> cache,
             raised |-> FALSE, value |-> NULL]
       ELSE IF names.raised
       THEN [contracts |-> tbl, type_names |-> names.type_names,
             raised |-> TRUE, value |-> NULL]
       ELSE IF raises
       THEN [contracts |-> tbl, type_names |-> names.type_names,
             raised |-> FALSE, value |-> NULL]
       ELSE [contracts |-> SetAppraisal(tbl, contract_id, answer),
             type_names |-> names.type_names,
             raised |-> FALSE, value |-> answer]

\* one call of janice_appraise_contract as cmd_list_contracts makes it: for a
\* stored contract whose appraisal is NULL.  A call that raises ends the
\* process with the tables as they are.
janice_appraise_contract(contract_id, api_key, esi, raises, answer) ==
    /\ pc = "idle"
    /\ \E i \in DOMAIN contracts :
          /\ contracts[i].contract_id = contract_id
          /\ IsNull(contracts[i].janice_immediate_split)
    /\ LET out == AppraiseContract(contracts, contract_items, type_names,
                                   contract_id, api_key, esi, raises, answer)
       IN /\ contracts' = out.contracts
          /\ type_names' = out.type_names
          /\ ledger_state' = Staleness(donations, out.contracts, industry_jobs,
                                       market_orders)
    /\ UNCHANGED <<list_pc, list_todo, list_key, reporting>>
    /\ UNCHANGED <<wallet_journal, donations, contract_items, industry_jobs,
                   market_orders, member_flows, txn_flows, pc>>

\* the SELECT of cmd_list_contracts: the `limit` newest contracts (all of
\* them when fewer are stored), newest first, each as [contract_id,
\* imm_split] with the appraisal it has at the SELECT.  date_issued is not
\* modelled: any order of any `limit` of the rows.
Batches(tbl, limit) ==
    LET n == IF limit < Len(tbl) THEN limit ELSE Len(tbl)
    IN {[i \in 1..n |-> [contract_id |-> tbl[f[i]].contract_id,
                         imm_split   |-> tbl[f[i]].janice_immediate_split]] :
           f \in {g \in [1..n -> DOMAIN tbl] :
                     \A i, j \in 1..n : i # j => g[i] # g[j]}}

\* cmd_list_contracts up to its loop
cmd_list_start(limit, api_key) ==
    /\ pc = "idle"
    /\ list_pc = "idle"
    /\ \E batch \in Batches(contracts, limit) :
          /\ list_todo' = batch
          /\ list_pc' = IF batch = <<>> THEN "done" ELSE "items"
    /\ list_key' = api_key
    /\ UNCHANGED <<type_names, reporting>>
    /\ UNCHANGED <<wallet_journal, donations, contracts, contract_items,
                   industry_jobs, market_orders, member_flows, txn_flows, pc,
                   ledger_state>>

\* the loop's body up to the appraisal: the names of all items of the
\* contract are resolved, outside any try
cmd_list_items(esi) ==
    /\ list_pc = "items"
    /\ LET cid   == Head(list_todo).contract_id
           items == SelectSeq(contract_items, LAMBDA it : it.contract_id = cid)
           names == ResolveNames(type_names, items, esi)
       IN /\ type_names' = names.type_names
          /\ list_pc' = IF names.raised THEN "aborted" ELSE "janice"
    /\ UNCHANGED <<list_todo, list_key, reporting>>
    /\ UNCHANGED <<wallet_journal, donations, contracts, contract_items,
                   industry_jobs, market_orders, member_flows, txn_flows, pc,
                   ledger_state>>

\* the rest of the loop's body: with a key configured, a contract whose
\* appraisal was NULL at the SELECT is appraised; an exception that leaves
\* janice_appraise_contract leaves cmd_list_contracts and main as well
cmd_list_janice(esi, raises, answer) ==
    /\ list_pc = "janice"
    /\ LET cid  == Head(list_todo).contract_id
           rest == Tail(list_todo)
           out  == IF list_key /\ IsNull(Head(list_todo).imm_split)
                   THEN AppraiseContract(contracts, contract_items, type_names,
                                         cid, list_key, esi, raises, answer)
                   ELSE [contracts |-> contracts, type_names |-> type_names,
                         raised |-> FALSE, value |-> Head(list_todo).imm_split]
       IN /\ contracts' = out.contracts
          /\ type_names' = out.type_names
          /\ ledger_state' = Staleness(donations, out.contracts, industry_jobs,
                                       market_orders)
          /\ IF out.raised
             THEN list_pc' = "aborted" /\ list_todo' = list_todo
             ELSE /\ list_todo' = rest
                  /\ list_pc' = IF rest = <<>> THEN "done" ELSE "items"
    /\ UNCHANGED <<list_key, reporting>>
    /\ UNCHANGED <<wallet_journal, donations, contract_items, industry_jobs,
                   market_orders, member_flows, txn_flows, pc>>

cmd_list_contracts ==
    \/ \E limit \in 1..2, api_key \in BOOLEAN : cmd_list_start(limit, api_key)
    \/ \E esi \in EsiOutcomes : cmd_list_items(esi)
    \/ \E esi \in EsiOutcomes, raises \in BOOLEAN, answer \in {NULL, Some(80)} :
          cmd_list_janice(esi, raises, answer)

(***************************************************************************)
(* Industry jobs and market orders                                         *)
(***************************************************************************)
JobExists(tbl, job_id) == \E i \in DOMAIN tbl : tbl[i].job_id = job_id

\* variant of InsertJobs: INSERT OR REPLACE, as for market orders
RECURSIVE InsertJobs_Replace(_, _)
InsertJobs_Replace(tbl, data) ==
    IF data = <<>> THEN tbl
    ELSE LET row  == Head(data)
             kept == SelectSeq(tbl, LAMBDA j : j.job_id # row.job_id)
         IN InsertJobs_Replace(Append(kept, row), Tail(data))

\* the loop over the fetched jobs: a job whose job_id is stored is skipped
RECURSIVE InsertJobs(_, _)
InsertJobs(tbl, data) ==
    IF data = <<>> THEN tbl
    ELSE LET row == Head(data)
         IN IF JobExists(tbl, row.job_id)
            THEN InsertJobs(tbl, Tail(data))
            ELSE InsertJobs(Append(tbl, row), Tail(data))

sync_industry_jobs(data) ==
    /\ pc = "idle"
    /\ LET tbl == InsertJobs(industry_jobs, data)
       IN /\ TotalRows - Len(industry_jobs) + Len(tbl) <= MaxRows
          /\ industry_jobs' = tbl
          /\ ledger_state' = Staleness(donations, contracts, tbl, market_orders)
    /\ UNCHANGED <<listing, reporting>>
    /\ UNCHANGED <<wallet_journal, donations, contracts, contract_items,
                   market_orders, member_flows, txn_flows, pc>>

\* the row stored for a fetched order: 1 if row.get("is_buy_order") else 0,
\* and the is_history flag of the endpoint it came from
OrderRow(row, is_history) ==
    [order_id      |-> row.order_id,
     issued_by     |-> row.issued_by,
     price         |-> row.price,
     volume_total  |-> row.volume_total,
     volume_remain |-> row.volume_remain,
     is_buy_order  |-> IF ~IsNull(row.is_buy_order) /\ Val(row.is_buy_order)
                       THEN 1 ELSE 0,
     is_history    |-> is_history]

\* INSERT OR REPLACE under UNIQUE(order_id): the stored row of that order is
\* deleted and the new row gets a fresh rowid, at the end of the table
RECURSIVE _sync_orders(_, _, _)
_sync_orders(tbl, data, is_history) ==
    IF data = <<>> THEN tbl
    ELSE LET row  == Head(data)
             kept == SelectSeq(tbl, LAMBDA o : o.order_id # row.order_id)
         IN _sync_orders(Append(kept, OrderRow(row, is_history)),
                         Tail(data), is_history)

sync_market_orders(open, history) ==
    /\ pc = "idle"
    /\ LET tbl == _sync_orders(_sync_orders(market_orders, open, 0), history, 1)
       IN /\ TotalRows - Len(market_orders) + Len(tbl) <= MaxRows
          /\ market_orders' = tbl
          /\ ledger_state' = Staleness(donations, contracts, industry_jobs, tbl)
    /\ UNCHANGED <<listing, reporting>>
    /\ UNCHANGED <<wallet_journal, donations, contracts, contract_items,
                   industry_jobs, member_flows, txn_flows, pc>>

(***************************************************************************)
(* rebuild_member_flows                                                    *)
(***************************************************************************)
Flow(character_id, direction, source, contract_id, journal_esi_id, value_isk, note) ==
    [character_id   |-> character_id,
     direction      |-> direction,
     source         |-> source,
     contract_id    |-> contract_id,
     journal_esi_id |-> journal_esi_id,
     value_isk      |-> value_isk,
     note           |-> note]

\* variant of WalletRow: only a missing amount skips the row, and the member
\* is read as int(char_id or 0)
WalletRow_OrZero(d) ==
    IF IsNull(d.amount)
    THEN <<>>
    ELSE <<Flow(OrZero(d.character_id), "in", "wallet", NULL,
                Some(d.journal_esi_id), Centi(Val(d.amount)), <<d.description>>)>>

\* one pass of the loop over SELECT ... FROM donations: a row without member
\* or amount is skipped, any other is credited int(char_id), float(amount)
WalletRow(d) ==
    IF IsNull(d.character_id) \/ IsNull(d.amount)
    THEN <<>>
    ELSE <<Flow(Val(d.character_id), "in", "wallet", NULL,
                Some(d.journal_esi_id), Centi(Val(d.amount)), <<d.description>>)>>

\* Wallet donations -> flows
RECURSIVE WalletFlows(_, _)
WalletFlows(flows, rows) ==
    IF rows = <<>> THEN flows
    ELSE WalletFlows(flows \o WalletRow(Head(rows)), Tail(rows))

\* variant of ContractInSelected: the WHERE clause without its price condition
ContractInSelected_AnyPrice(c) ==
    /\ c.status = "finished"
    /\ ~IsNull(c.janice_immediate_split)

\* WHERE (price IS NULL OR price = 0) AND status = 'finished'
\*   AND janice_immediate_split IS NOT NULL
ContractInSelected(c) ==
    /\ IsNull(c.price) \/ Val(c.price) = 0
    /\ c.status = "finished"
    /\ ~IsNull(c.janice_immediate_split)

\* variant of ContractInRow: `or val` for `or val is None`
ContractInRow_SkipAppraised(c) ==
    IF IsNull(c.issuer_id) \/ OrZero(c.janice_immediate_split) # 0
    THEN <<>>
    ELSE <<Flow(Val(c.issuer_id), "in", "contract_in", Some(c.contract_id), NULL,
                Centi(OrZero(c.janice_immediate_split)),
                <<"Donation contract to corp">>)>>

\* one pass of the loop over the selected donation contracts
ContractInRow(c) ==
    IF IsNull(c.issuer_id) \/ IsNull(c.janice_immediate_split)
    THEN <<>>
    ELSE <<Flow(Val(c.issuer_id), "in", "contract_in", Some(c.contract_id), NULL,
                Centi(Val(c.janice_immediate_split)),
                <<"Donation contract to corp">>)>>

\* Member -> Corp donation contracts
RECURSIVE ContractInFlows(_, _)
ContractInFlows(flows, rows) ==
    IF rows = <<>> THEN flows
    ELSE ContractInFlows(flows \o ContractInRow(Head(rows)), Tail(rows))

\* WHERE for_corporation = 1 AND price IS NOT NULL AND status = 'finished'
\*   AND janice_immediate_split IS NOT NULL
ContractOutSelected(c) ==
    /\ c.for_corporation = 1
    /\ ~IsNull(c.price)
    /\ c.status = "finished"
    /\ ~IsNull(c.janice_immediate_split)

\* variant of SubsidyFlows: the second INSERT repeats the tag of the first
SubsidyFlows_SameTag(assignee_id, contract_id, subsidy) ==
    << Flow(assignee_id, "out", "contract_out", Some(contract_id), NULL,
            Centi(subsidy), <<"Corp subsidy / payout">>),
       Flow(assignee_id, "in", "contract_out", Some(contract_id), NULL,
            10 * subsidy, <<"Corp Discount Credit">>) >>

\* the two INSERTs of a subsidised contract; subsidy in ISK, and
\* subsidy * float(.10) is 10 hundredths of an ISK per ISK of subsidy
SubsidyFlows(assignee_id, contract_id, subsidy) ==
    << Flow(assignee_id, "out", "contract_out", Some(contract_id), NULL,
            Centi(subsidy), <<"Corp subsidy / payout">>),
       Flow(assignee_id, "in", "contract_out_subsidy", Some(contract_id), NULL,
            10 * subsidy, <<"Corp Discount Credit">>) >>

\* variant of ContractOutRow: `subsidy < 0` for `subsidy <= 0`
ContractOutRow_ZeroSubsidy(c) ==
    LET subsidy == Val(c.janice_immediate_split) - OrZero(c.price)
    IN IF IsNull(c.assignee_id) \/ IsNull(c.janice_immediate_split)
       THEN <<>>
       ELSE IF subsidy < 0
       THEN <<>>
       ELSE SubsidyFlows(Val(c.assignee_id), c.contract_id, subsidy)

\* one pass of the loop over the selected priced contracts:
\* subsidy = float(val) - float(price or 0)
ContractOutRow(c) ==
    LET subsidy == Val(c.janice_immediate_split) - OrZero(c.price)
    IN IF IsNull(c.assignee_id) \/ IsNull(c.janice_immediate_split)
       THEN <<>>
       ELSE IF subsidy <= 0
       THEN <<>>
       ELSE SubsidyFlows(Val(c.assignee_id), c.contract_id, subsidy)

\* Corp -> Member subsidies
RECURSIVE ContractOutFlows(_, _)
ContractOutFlows(flows, rows) ==
    IF rows = <<>> THEN flows
    ELSE ContractOutFlows(flows \o ContractOutRow(Head(rows)), Tail(rows))

\* variant of IndustrySelected: jobs ready for delivery are selected too
IndustrySelected_Ready(j) ==
    /\ j.status \in {"delivered", "ready"}
    /\ ~IsNull(j.cost)
    /\ ~IsNull(j.installer_id)

\* WHERE status = 'delivered' AND cost IS NOT NULL AND installer_id IS NOT NULL
IndustrySelected(j) ==
    /\ j.status = "delivered"
    /\ ~IsNull(j.cost)
    /\ ~IsNull(j.installer_id)

\* variant of IndustryRow: the job cost is written as value out
IndustryRow_Out(j) ==
    <<Flow(Val(j.installer_id), "out", "industry", NULL, NULL,
           Centi(Val(j.cost)), <<"Industry job", j.job_id>>)>>

\* one pass of the loop over the selected jobs
IndustryRow(j) ==
    <<Flow(Val(j.installer_id), "in", "industry", NULL, NULL,
           Centi(Val(j.cost)), <<"Industry job", j.job_id>>)>>

\* Industry manufacturing jobs
RECURSIVE IndustryFlows(_, _)
IndustryFlows(flows, rows) ==
    IF rows = <<>> THEN flows
    ELSE IndustryFlows(flows \o IndustryRow(Head(rows)), Tail(rows))

\* variant of MarketSelected: the WHERE clause without is_history = 1
MarketSelected_AnyRow(o) ==
    /\ o.is_buy_order = 0
    /\ ~IsNull(o.issued_by)
    /\ ~IsNull(o.price)

\* WHERE is_history = 1 AND is_buy_order = 0 AND issued_by IS NOT NULL
\*   AND price IS NOT NULL
MarketSelected(o) ==
    /\ o.is_history = 1
    /\ o.is_buy_order = 0
    /\ ~IsNull(o.issued_by)
    /\ ~IsNull(o.price)

\* one pass of the loop over the selected orders:
\* sold_volume = float(volume_total) - float(volume_remain or 0), and
\* sale_value * 0.01 is one hundredth of an ISK per ISK sold
MarketRow(o) ==
    LET sold_volume == Val(o.volume_total) - OrZero(o.volume_remain)
        sale_value  == sold_volume * Val(o.price)
    IN IF IsNull(o.volume_total)
       THEN <<>>
       ELSE IF sold_volume <= 0
       THEN <<>>
       ELSE <<Flow(Val(o.issued_by), "in", "market", NULL, NULL, sale_value,
                   <<"Market sell order", o.order_id, sold_volume, Val(o.price)>>)>>

\* Market order sales
RECURSIVE MarketFlows(_, _)
MarketFlows(flows, rows) ==
    IF rows = <<>> THEN flows
    ELSE MarketFlows(flows \o MarketRow(Head(rows)), Tail(rows))

\* variant of rebuild_delete: the DELETE is committed on its own
rebuild_delete_Autocommit ==
    /\ pc = "idle"
    /\ pc' = "deleted"
    /\ txn_flows' = <<>>
    /\ member_flows' = <<>>
    /\ UNCHANGED <<listing, reporting>>
    /\ UNCHANGED <<wallet_journal, donations, contracts, contract_items,
                   industry_jobs, market_orders, ledger_state>>

\* variant of rebuild_delete: the rebuild without its DELETE
rebuild_delete_NoDelete ==
    /\ pc = "idle"
    /\ pc' = "deleted"
    /\ txn_flows' = member_flows
    /\ UNCHANGED <<listing, reporting>>
    /\ UNCHANGED <<wallet_journal, donations, contracts, contract_items,
                   industry_jobs, market_orders, member_flows, ledger_state>>

\* cur.execute("DELETE FROM member_flows"): sqlite3 opens the transaction
\* here, nothing is committed before conn.commit()
rebuild_delete ==
    /\ pc = "idle"
    /\ pc' = "deleted"
    /\ txn_flows' = <<>>
    /\ UNCHANGED <<listing, reporting>>
    /\ UNCHANGED <<wallet_journal, donations, contracts, contract_items,
                   industry_jobs, market_orders, member_flows, ledger_state>>

rebuild_wallet ==
    /\ pc = "deleted"
    /\ pc' = "wallet"
    /\ txn_flows' = WalletFlows(txn_flows, donations)
    /\ UNCHANGED <<listing, reporting>>
    /\ UNCHANGED <<wallet_journal, donations, contracts, contract_items,
                   industry_jobs, market_orders, member_flows, ledger_state>>

rebuild_contract_in ==
    /\ pc = "wallet"
    /\ pc' = "contract_in"
    /\ txn_flows' = ContractInFlows(txn_flows, SelectSeq(contracts, ContractInSelected))
    /\ UNCHANGED <<listing, reporting>>
    /\ UNCHANGED <<wallet_journal, donations, contracts, contract_items,
                   industry_jobs, market_orders, member_flows, ledger_state>>

rebuild_contract_out ==
    /\ pc = "contract_in"
    /\ pc' = "contract_out"
    /\ txn_flows' = ContractOutFlows(txn_flows, SelectSeq(contracts, ContractOutSelected))
    /\ UNCHANGED <<listing, reporting>>
    /\ UNCHANGED <<wallet_journal, donations, contracts, contract_items,
                   industry_jobs, market_orders, member_flows, ledger_state>>

rebuild_industry ==
    /\ pc = "contract_out"
    /\ pc' = "industry"
    /\ txn_flows' = IndustryFlows(txn_flows, SelectSeq(industry_jobs, IndustrySelected))
    /\ UNCHANGED <<listing, reporting>>
    /\ UNCHANGED <<wallet_journal, donations, contracts, contract_items,
                   industry_jobs, market_orders, member_flows, ledger_state>>

rebuild_market ==
    /\ pc = "industry"
    /\ pc' = "market"
    /\ txn_flows' = MarketFlows(txn_flows, SelectSeq(market_orders, MarketSelected))
    /\ UNCHANGED <<listing, reporting>>
    /\ UNCHANGED <<wallet_journal, donations, contracts, contract_items,
                   industry_jobs, market_orders, member_flows, ledger_state>>

\* variant of rebuild_commit: the new records are added to the prior ledger
rebuild_commit_Merge ==
    /\ pc = "market"
    /\ pc' = "idle"
    /\ member_flows' = member_flows \o txn_flows
    /\ txn_flows' = <<>>
    /\ ledger_state' = "current"
    /\ UNCHANGED <<listing, reporting>>
    /\ UNCHANGED <<wallet_journal, donations, contracts, contract_items,
                   industry_jobs, market_orders>>

\* conn.commit(): the transaction's member_flows becomes the committed one
rebuild_commit ==
    /\ pc = "market"
    /\ pc' = "idle"
    /\ member_flows' = txn_flows
    /\ txn_flows' = <<>>
    /\ ledger_state' = "current"
    /\ UNCHANGED <<listing, reporting>>
    /\ UNCHANGED <<wallet_journal, donations, contracts, contract_items,
                   industry_jobs, market_orders>>

\* an exception (or a crash) between the DELETE and the commit: nothing
\* catches it, the process ends and SQLite rolls the open transaction back
rebuild_fail ==
    /\ pc # "idle"
    /\ pc' = "idle"
    /\ txn_flows' = <<>>
    /\ UNCHANGED <<listing, reporting>>
    /\ UNCHANGED <<wallet_journal, donations, contracts, contract_items,
                   industry_jobs, market_orders, member_flows, ledger_state>>

rebuild_member_flows ==
    \/ rebuild_delete
    \/ rebuild_wallet
    \/ rebuild_contract_in
    \/ rebuild_contract_out
    \/ rebuild_industry
    \/ rebuild_market
    \/ rebuild_commit
    \/ rebuild_fail

(***************************************************************************)
(* Aggregation: totals, per-member net values, shares                      *)
(***************************************************************************)
\* 1,000,000,000 ISK => 1 share
SHARE_UNIT_ISK == 1000000000

\* custom_raw.get("share_unit_isk", 1_000_000_000)
DefaultCustomShareUnit == 1000000000

\* load_config, as far as cfg.custom_share_unit_isk goes
load_config(option) ==
    IF IsNull(option) THEN DefaultCustomShareUnit ELSE Val(option)

\* variant of SumCase: the SUM without its CASE
RECURSIVE SumCase_AllRows(_, _)
SumCase_AllRows(rows, direction) ==
    IF rows = <<>> THEN 0
    ELSE Head(rows).value_isk + SumCase_AllRows(Tail(rows), direction)

\* SUM(CASE WHEN direction = ? THEN value_isk ELSE 0 END) over at least one row
RECURSIVE SumCase(_, _)
SumCase(rows, direction) ==
    IF rows = <<>> THEN 0
    ELSE (IF Head(rows).direction = direction THEN Head(rows).value_isk ELSE 0)
         + SumCase(Tail(rows), direction)

\* COALESCE(SUM(...), 0): the SUM over no row is NULL
CoalesceSum(rows, direction) ==
    IF rows = <<>> THEN 0 ELSE SumCase(rows, direction)

\* variant of get_flow_totals: net = total_in + total_out
get_flow_totals_NetSum(flows) ==
    LET total_in  == CoalesceSum(flows, "in")
        total_out == CoalesceSum(flows, "out")
    IN <<total_in, total_out, total_in + total_out>>

\* get_flow_totals: (total_in, total_out, net), in hundredths of an ISK
get_flow_totals(flows) ==
    LET total_in  == CoalesceSum(flows, "in")
        total_out == CoalesceSum(flows, "out")
    IN <<total_in, total_out, total_in - total_out>>

\* SUM(CASE WHEN direction = 'in' THEN value_isk
\*          WHEN direction = 'out' THEN -value_isk ELSE 0 END)
RECURSIVE SumSigned(_)
SumSigned(rows) ==
    IF rows = <<>> THEN 0
    ELSE (IF Head(rows).direction = "in" THEN Head(rows).value_isk
          ELSE IF Head(rows).direction = "out" THEN 0 - Head(rows).value_isk
          ELSE 0)
         + SumSigned(Tail(rows))

\* variant of get_member_net_values: 'out' rows are added like 'in' rows
get_member_net_values_Unsigned(flows) ==
    [m \in {flows[i].character_id : i \in DOMAIN flows} |->
        SumCase_AllRows(SelectSeq(flows, LAMBDA f : f.character_id = m), "in")]

\* get_member_net_values: GROUP BY character_id, one entry of the dict per
\* group.  (The group of NULL is skipped; every INSERT of the rebuild writes
\* int(...) to character_id, so the ledger has no such group.)
get_member_net_values(flows) ==
    [m \in {flows[i].character_id : i \in DOMAIN flows} |->
        SumSigned(SelectSeq(flows, LAMBDA f : f.character_id = m))]

\* value / SHARE_UNIT_ISK if SHARE_UNIT_ISK > 0 else 0.0.  A quotient is kept
\* as <<dividend, divisor>>, 0.0 as <<0, 1>>; the dividend is in hundredths
\* of an ISK.  A divisor of 0 stands for a ZeroDivisionError.
Shares(value, unit) == IF unit > 0 THEN <<value, unit>> ELSE <<0, 1>>

\* sorted(per_char.items(), key=lambda x: x[1], reverse=True): by value,
\* largest first; equal values stay in the order of the dict, which is the
\* order of the groups (character_id ascending)
RECURSIVE SortedByValue(_)
SortedByValue(per_char) ==
    IF DOMAIN per_char = {} THEN <<>>
    ELSE LET first == CHOOSE m \in DOMAIN per_char :
                         \A n \in DOMAIN per_char :
                             \/ per_char[n] < per_char[m]
                             \/ per_char[n] = per_char[m] /\ m <= n
         IN <<first>> \o SortedByValue([n \in DOMAIN per_char \ {first} |->
                                           per_char[n]])

\* cmd_dashboard, run with a config.yaml whose custom.share_unit_isk is option
cmd_dashboard(option) ==
    /\ pc = "idle"
    /\ share_unit_isk' = option
    /\ LET totals == get_flow_totals(member_flows)
       IN report' = [cmd          |-> "dashboard",
                     totals       |-> totals,
                     total_shares |-> Shares(totals[3], SHARE_UNIT_ISK),
                     rows         |-> <<>>]
    /\ UNCHANGED listing
    /\ UNCHANGED <<wallet_journal, donations, contracts, contract_items,
                   industry_jobs, market_orders, member_flows, txn_flows, pc,
                   ledger_state>>

\* cmd_export_dataset, likewise: one line per entry of per_char.  (The names
\* of get_character_name, which catches every exception, are left out.)
cmd_export_dataset(option) ==
    /\ pc = "idle"
    /\ share_unit_isk' = option
    /\ LET per_char == get_member_net_values(member_flows)
           order    == SortedByValue(per_char)
       IN report' = [cmd          |-> "export-dataset",
                     totals       |-> <<0, 0, 0>>,
                     total_shares |-> <<0, 1>>,
                     rows         |-> [i \in DOMAIN order |->
                                         [character_id |-> order[i],
                                          value        |-> per_char[order[i]],
                                          shares       |-> Shares(per_char[order[i]],
                                                                  SHARE_UNIT_ISK)]]]
    /\ UNCHANGED listing
    /\ UNCHANGED <<wallet_journal, donations, contracts, contract_items,
                   industry_jobs, market_orders, member_flows, txn_flows, pc,
                   ledger_state>>

\* the options custom.share_unit_isk a config.yaml may carry
ShareUnitOptions == {NULL, Some(0), Some(-1), Some(500000000)}

reports ==
    \/ \E option \in ShareUnitOptions : cmd_dashboard(option)
    \/ \E option \in ShareUnitOptions : cmd_export_dataset(option)

(***************************************************************************)
(* The feeds of the external API and the answers of the appraisal provider *)
(***************************************************************************)
\* the rows of one sync run: one row, or two (which may repeat an id)
Feeds(S) == {<<r>> : r \in S} \cup {<<r, q>> : r \in S, q \in S}

JournalFeed ==
    [esi_id : ExtIds, ref_type : {"player_donation", "bounty_prizes"},
     amount : {Some(-5), Some(7)}, first_party_id : {Some(1)},
     description : {NULL}]

ItemFeeds == {<<>>, <<[record_id |-> 1, type_id |-> Some(34), is_included |-> TRUE]>>}

ContractFeed ==
    [contract_id : ExtIds, issuer_id : {Some(1)}, assignee_id : {Some(2)},
     status : {"finished"}, for_corporation : {Some(TRUE)},
     price : {Some(0), Some(100)}, items : ItemFeeds]

AppraisalAnswers == {NULL, Some(80), Some(150)}

JobFeed ==
    [job_id : ExtIds, installer_id : {Some(1)}, cost : {Some(5)},
     status : {"delivered", "active"}]

OrderFeed ==
    [order_id : ExtIds, issued_by : {Some(1)}, price : {Some(10)},
     volume_total : {Some(3)}, volume_remain : {Some(1)},
     is_buy_order : {NULL}]

(***************************************************************************)
(* The program: every command on an initially empty database               *)
(***************************************************************************)
\* no list-contracts run
NoListing ==
    /\ list_pc = "idle"
    /\ list_todo = <<>>
    /\ list_key = FALSE

NoReport ==
    [cmd |-> "none", totals |-> <<0, 0, 0>>, total_shares |-> <<0, 1>>,
     rows |-> <<>>]

\* no dashboard or export-dataset run
NoReporting ==
    /\ share_unit_isk = NULL
    /\ report = NoReport

Init ==
    /\ wallet_journal = <<>>
    /\ donations = <<>>
    /\ contracts = <<>>
    /\ contract_items = <<>>
    /\ industry_jobs = <<>>
    /\ market_orders = <<>>
    /\ member_flows = <<>>
    /\ txn_flows = <<>>
    /\ pc = "idle"
    /\ ledger_state = "stale"
    /\ type_names = {}
    /\ NoListing
    /\ NoReporting

Next ==
    \/ \E data \in Feeds(JournalFeed) : sync_wallet_journal(data)
    \/ update_donations_from_journal
    \/ \E data \in Feeds(ContractFeed) : sync_contracts(data)
    \/ \E contract_id \in ExtIds, api_key \in BOOLEAN, esi \in EsiOutcomes,
          raises \in BOOLEAN, answer \in AppraisalAnswers :
          janice_appraise_contract(contract_id, api_key, esi, raises, answer)
    \/ \E data \in Feeds(JobFeed) : sync_industry_jobs(data)
    \/ \E open \in {<<>>} \cup Feeds(OrderFeed),
          history \in {<<>>} \cup Feeds(OrderFeed) :
          sync_market_orders(open, history)
    \/ rebuild_member_flows

Spec == Init /\ [][Next]_vars

(***************************************************************************)
(* The derivation rules alone: rebuilds over one source table, which holds *)
(* any one row (id 1), alone or before or after a second row (id 2) that   *)
(* its rule credits                                                        *)
(***************************************************************************)
TablesOf(rows, other) ==
    {<<r>> : r \in rows} \cup {<<other, r>> : r \in rows}
        \cup {<<r, other>> : r \in rows}

JournalRows ==
    [esi_id : {1}, ref_type : {"player_donation", "bounty_prizes"},
     amount : {NULL, Some(-5), Some(7)}, first_party_id : Members,
     description : {NULL, Some("memo")}]

OtherJournalRow ==
    [esi_id |-> 2, ref_type |-> "player_donation", amount |-> Some(7),
     first_party_id |-> Some(2), description |-> NULL]

ContractRows ==
    [contract_id : {1}, issuer_id : Members, assignee_id : {NULL, Some(2)},
     status : {"finished", "outstanding", "failed"}, for_corporation : {0, 1},
     price : {NULL, Some(0), Some(100)},
     janice_immediate_split : {NULL, Some(80), Some(100), Some(150)}]

OtherContractRow ==
    [contract_id |-> 2, issuer_id |-> Some(3), assignee_id |-> Some(4),
     status |-> "finished", for_corporation |-> 1, price |-> Some(100),
     janice_immediate_split |-> Some(150)]

\* one included item for every contract of the table
RECURSIVE ItemsOf(_)
ItemsOf(tbl) ==
    IF tbl = <<>> THEN <<>>
    ELSE <<[contract_id |-> Head(tbl).contract_id, record_id |-> 1,
            type_id |-> Some(34), is_included |-> 1]>> \o ItemsOf(Tail(tbl))

JobRows ==
    [job_id : {1}, installer_id : Members, cost : {NULL, Some(5)},
     status : {"active", "paused", "ready", "delivered", "cancelled", "reverted"}]

OtherJobRow ==
    [job_id |-> 2, installer_id |-> Some(2), cost |-> Some(5),
     status |-> "delivered"]

OrderRows ==
    [order_id : {1}, issued_by : Members, price : {NULL, Some(10)},
     volume_total : {NULL, Some(3)},
     volume_remain : {NULL, Some(1), Some(3), Some(4)},
     is_buy_order : {0, 1}, is_history : {0, 1}]

OtherOrderRow ==
    [order_id |-> 2, issued_by |-> Some(2), price |-> Some(10),
     volume_total |-> Some(3), volume_remain |-> Some(1),
     is_buy_order |-> 0, is_history |-> 1]

InitRules ==
    /\ \/ /\ wallet_journal \in TablesOf(JournalRows, OtherJournalRow)
          /\ donations = InsertDonations(<<>>, NewDonationEntries(wallet_journal, <<>>))
          /\ contracts = <<>> /\ industry_jobs = <<>> /\ market_orders = <<>>
       \/ /\ contracts \in TablesOf(ContractRows, OtherContractRow)
          /\ wallet_journal = <<>> /\ donations = <<>>
          /\ industry_jobs = <<>> /\ market_orders = <<>>
       \/ /\ industry_jobs \in TablesOf(JobRows, OtherJobRow)
          /\ wallet_journal = <<>> /\ donations = <<>>
          /\ contracts = <<>> /\ market_orders = <<>>
       \/ /\ market_orders \in TablesOf(OrderRows, OtherOrderRow)
          /\ wallet_journal = <<>> /\ donations = <<>>
          /\ contracts = <<>> /\ industry_jobs = <<>>
    /\ contract_items = ItemsOf(contracts)
    /\ member_flows = <<>>
    /\ txn_flows = <<>>
    /\ pc = "idle"
    /\ ledger_state = "stale"
    /\ type_names = {}
    /\ NoListing
    /\ NoReporting

SpecRules == InitRules /\ [][rebuild_member_flows]_vars

(***************************************************************************)
(* list-contracts alone: one run over a database that holds one contract   *)
(* (id 1), alone or before or after a second one (id 2), each with no item *)
(* or one item, and a cache of type names that is empty or holds type 34   *)
(***************************************************************************)
ListContractRows ==
    [contract_id : {1}, issuer_id : {Some(1)}, assignee_id : {Some(2)},
     status : {"finished"}, for_corporation : {1}, price : {Some(100)},
     janice_immediate_split : {NULL, Some(150)}]

OtherListContractRow ==
    [contract_id |-> 2, issuer_id |-> Some(3), assignee_id |-> Some(4),
     status |-> "finished", for_corporation |-> 1, price |-> Some(100),
     janice_immediate_split |-> NULL]

\* the items stored for one contract: none, or one whose type_id the feed
\* gave or left out (item.get("type_id")), included or not
ItemRows(contract_id) ==
    {<<>>} \cup {<<[contract_id |-> contract_id, record_id |-> 1,
                   type_id |-> t, is_included |-> b]>> :
                    t \in {NULL, Some(34)}, b \in {0, 1}}

InitList ==
    /\ contracts \in TablesOf(ListContractRows, OtherListContractRow)
    /\ \E one \in ItemRows(1), two \in ItemRows(2) :
          contract_items =
              one \o (IF Len(contracts) = 2 THEN two ELSE <<>>)
    /\ type_names \in {{}, {34}}
    /\ wallet_journal = <<>> /\ donations = <<>>
    /\ industry_jobs = <<>> /\ market_orders = <<>>
    /\ member_flows = <<>>
    /\ txn_flows = <<>>
    /\ pc = "idle"
    /\ ledger_state = "stale"
    /\ NoListing
    /\ NoReporting

SpecList == InitList /\ [][cmd_list_contracts]_vars

(***************************************************************************)
(* The reports alone: dashboard and export-dataset runs over the ledger    *)
(* that a rebuild committed from no, one or two appraised contracts and no *)
(* or one donation                                                         *)
(***************************************************************************)
ReportContractRows ==
    [contract_id : {1}, issuer_id : {Some(1)}, assignee_id : {Some(1), Some(2)},
     status : {"finished"}, for_corporation : {0, 1},
     price : {Some(0), Some(100)}, janice_immediate_split : {Some(150)}]

\* what rebuild_member_flows commits from given tables
RebuiltLedger(d, c, j, m) ==
    MarketFlows(
        IndustryFlows(
            ContractOutFlows(
                ContractInFlows(WalletFlows(<<>>, d),
                                SelectSeq(c, ContractInSelected)),
                SelectSeq(c, ContractOutSelected)),
            SelectSeq(j, IndustrySelected)),
        SelectSeq(m, MarketSelected))

InitReports ==
    /\ wallet_journal \in {<<>>, <<OtherJournalRow>>}
    /\ donations = InsertDonations(<<>>, NewDonationEntries(wallet_journal, <<>>))
    /\ contracts \in {<<>>} \cup TablesOf(ReportContractRows, OtherContractRow)
    /\ contract_items = ItemsOf(contracts)
    /\ type_names = IF contracts = <<>> THEN {} ELSE {34}
    /\ industry_jobs = <<>> /\ market_orders = <<>>
    /\ member_flows = RebuiltLedger(donations, contracts, industry_jobs,
                                    market_orders)
    /\ txn_flows = <<>>
    /\ pc = "idle"
    /\ ledger_state = "current"
    /\ NoListing
    /\ NoReporting

SpecReports == InitReports /\ [][reports]_vars

(***************************************************************************)
(* Properties of the derivation rules (checked under SpecRules)            *)
(***************************************************************************)
\* the ledger rows with a given source tag that reference a given contract
ContractFlows(source, contract_id) ==
    {i \in DOMAIN member_flows :
        /\ member_flows[i].source = source
        /\ member_flows[i].contract_id = Some(contract_id)}

\* the ledger rows with a given source tag that reference a given journal entry
JournalFlows(source, esi_id) ==
    {i \in DOMAIN member_flows :
        /\ member_flows[i].source = source
        /\ member_flows[i].journal_esi_id = Some(esi_id)}

\* the ledger rows with a given source tag whose note names a given job or order
NotedFlows(source, id) ==
    {i \in DOMAIN member_flows :
        /\ member_flows[i].source = source
        /\ member_flows[i].note[2] = id}

SubsidisedContract(c) ==
    /\ c.for_corporation = 1
    /\ ~IsNull(c.price)
    /\ c.status = "finished"
    /\ ~IsNull(c.janice_immediate_split)
    /\ ~IsNull(c.assignee_id)
    /\ Val(c.janice_immediate_split) - Val(c.price) > 0

DonationContract(c) ==
    /\ IsNull(c.price) \/ Val(c.price) = 0
    /\ c.status = "finished"
    /\ ~IsNull(c.janice_immediate_split)
    /\ ~IsNull(c.issuer_id)

C7_RuleWallet ==
    ledger_state = "current" =>
        /\ \A k \in DOMAIN donations :
              LET d  == donations[k]
                  in == JournalFlows("wallet", d.journal_esi_id)
              IN IF ~IsNull(d.character_id) /\ ~IsNull(d.amount)
                 THEN /\ Cardinality(in) = 1
                      /\ \A i \in in :
                            /\ member_flows[i].character_id = Val(d.character_id)
                            /\ member_flows[i].direction = "in"
                            /\ member_flows[i].value_isk = Centi(Val(d.amount))
                 ELSE in = {}
        /\ \A i \in DOMAIN member_flows :
              member_flows[i].source = "wallet" =>
                  \E k \in DOMAIN donations :
                      member_flows[i].journal_esi_id = Some(donations[k].journal_esi_id)

\* a committed ledger over a Donation row without member (skipped) and one
\* with member and amount (credited)
C7_Witness ==
    /\ ledger_state = "current"
    /\ \E k \in DOMAIN donations :
          /\ IsNull(donations[k].character_id)
          /\ JournalFlows("wallet", donations[k].journal_esi_id) = {}
    /\ \E k \in DOMAIN donations :
          /\ ~IsNull(donations[k].character_id)
          /\ Cardinality(JournalFlows("wallet", donations[k].journal_esi_id)) = 1

\* realized volume of an order; an unknown remaining volume counts as 0
SoldVolume(o) == Val(o.volume_total) - OrZero(o.volume_remain)

CreditedOrder(o) ==
    /\ o.is_history = 1
    /\ o.is_buy_order = 0
    /\ ~IsNull(o.issued_by)
    /\ ~IsNull(o.price)
    /\ ~IsNull(o.volume_total)
    /\ SoldVolume(o) > 0

\* C8: Rule M.  In a ledger that a rebuild committed from the present source
\* tables, a historical sell order with issuer, price and known total volume
\* and sold = total - remaining > 0 has exactly one market record: for the
\* issuer, direction in, value 1% of sold * price; any other order (open
\* snapshot, buy side, missing field, nothing sold) has none.
C8_RuleMarket ==
    ledger_state = "current" =>
        /\ \A k \in DOMAIN market_orders :
              LET o  == market_orders[k]
                  in == NotedFlows("market", o.order_id)
              IN IF CreditedOrder(o)
                 THEN /\ Cardinality(in) = 1
                      /\ \A i \in in :
                            /\ member_flows[i].character_id = Val(o.issued_by)
                            /\ member_flows[i].direction = "in"
                            /\ 100 * member_flows[i].value_isk
                                   = Centi(SoldVolume(o) * Val(o.price))
                 ELSE in = {}
        /\ \A i \in DOMAIN member_flows :
              member_flows[i].source = "market" =>
                  \E k \in DOMAIN market_orders :
                      member_flows[i].note[2] = market_orders[k].order_id

C8_Witness ==
    /\ ledger_state = "current"
    /\ \E k \in DOMAIN market_orders :
          /\ market_orders[k].order_id = 1
          /\ market_orders[k].volume_total = Some(3)
          /\ market_orders[k].volume_remain = Some(1)
          /\ Cardinality(NotedFlows("market", 1)) = 1

\* C9: Rule I.  In a ledger that a rebuild committed from the present source
\* tables, a job with status 'delivered', a cost and an installer has exactly
\* one industry record: for the installer, direction in, value the cost; a
\* job in any other status, or missing cost or installer, has none.
C9_RuleIndustry ==
    ledger_state = "current" =>
        /\ \A k \in DOMAIN industry_jobs :
              LET j  == industry_jobs[k]
                  in == NotedFlows("industry", j.job_id)
              IN IF j.status = "delivered" /\ ~IsNull(j.cost) /\ ~IsNull(j.installer_id)
                 THEN /\ Cardinality(in) = 1
                      /\ \A i \in in :
                            /\ member_flows[i].character_id = Val(j.installer_id)
                            /\ member_flows[i].direction = "in"
                            /\ member_flows[i].value_isk = Centi(Val(j.cost))
                 ELSE in = {}
        /\ \A i \in DOMAIN member_flows :
              member_flows[i].source = "industry" =>
                  \E k \in DOMAIN industry_jobs :
                      member_flows[i].note[2] = industry_jobs[k].job_id

C9_Witness ==
    /\ ledger_state = "current"
    /\ \E k \in DOMAIN industry_jobs :
          /\ industry_jobs[k].job_id = 1
          /\ industry_jobs[k].status = "delivered"
          /\ Cardinality(NotedFlows("industry", 1)) = 1

(***************************************************************************)
(* Properties of the rebuild as a whole (checked under Spec)               *)
(***************************************************************************)
\* C1: idempotence.  A rebuild that ends while no row of donations,
\* contracts, industry_jobs or market_orders has changed since the previous
\* committed rebuild leaves the same multiset of (member, direction, source,
\* contract_ref, journal_ref, value, note) records in the ledger.
C1_Idempotent ==
    [][(pc = "market" /\ pc' = "idle" /\ ledger_state = "current")
          => SameRows(member_flows', member_flows)]_vars

\* a second rebuild over unchanged sources, all five rules run, about to commit
C1_Witness ==
    /\ pc = "market"
    /\ ledger_state = "current"
    /\ Len(member_flows) >= 2
    /\ SameRows(txn_flows, member_flows)

\* C2: atomicity.  The committed ledger changes in one kind of step only: the
\* commit that follows the DELETE and all five rules, which replaces the
\* whole prior ledger by the whole new one.  Every other step, a failure at
\* any point of the rebuild included, leaves the committed ledger as it was.
C2_AtomicReplace ==
    [][member_flows' # member_flows
          => (pc = "market" /\ pc' = "idle" /\ member_flows' = txn_flows)]_vars

\* mid-rebuild: the table is cleared inside the transaction while the
\* committed ledger still holds the prior records
C2_Witness ==
    /\ pc = "deleted"
    /\ txn_flows = <<>>
    /\ Len(member_flows) >= 2

\* C3: every Flow Ledger record has a non-negative value.
C3_NonNegativeValues ==
    \A i \in DOMAIN member_flows : member_flows[i].value_isk >= 0

\* how many source rows the five rules turn into the record r
DerivedCount(r) ==
    Cardinality({k \in DOMAIN donations :
        /\ ~IsNull(donations[k].character_id)
        /\ ~IsNull(donations[k].amount)
        /\ r = [character_id   |-> Val(donations[k].character_id),
                direction      |-> "in",
                source         |-> "wallet",
                contract_id    |-> NULL,
                journal_esi_id |-> Some(donations[k].journal_esi_id),
                value_isk      |-> Centi(Val(donations[k].amount)),
                note           |-> <<donations[k].description>>]})
    + Cardinality({k \in DOMAIN contracts :
        /\ DonationContract(contracts[k])
        /\ r = [character_id   |-> Val(contracts[k].issuer_id),
                direction      |-> "in",
                source         |-> "contract_in",
                contract_id    |-> Some(contracts[k].contract_id),
                journal_esi_id |-> NULL,
                value_isk      |-> Centi(Val(contracts[k].janice_immediate_split)),
                note           |-> <<"Donation contract to corp">>]})
    + Cardinality({k \in DOMAIN contracts :
        /\ SubsidisedContract(contracts[k])
        /\ r = [character_id   |-> Val(contracts[k].assignee_id),
                direction      |-> "out",
                source         |-> "contract_out",
                contract_id    |-> Some(contracts[k].contract_id),
                journal_esi_id |-> NULL,
                value_isk      |-> Centi(Val(contracts[k].janice_immediate_split)
                                         - Val(contracts[k].price)),
                note           |-> <<"Corp subsidy / payout">>]})
    + Cardinality({k \in DOMAIN contracts :
        /\ SubsidisedContract(contracts[k])
        /\ r = [character_id   |-> Val(contracts[k].assignee_id),
                direction      |-> "in",
                source         |-> "contract_out_subsidy",
                contract_id    |-> Some(contracts[k].contract_id),
                journal_esi_id |-> NULL,
                value_isk      |-> 10 * (Val(contracts[k].janice_immediate_split)
                                         - Val(contracts[k].price)),
                note           |-> <<"Corp Discount Credit">>]})
    + Cardinality({k \in DOMAIN industry_jobs :
        /\ industry_jobs[k].status = "delivered"
        /\ ~IsNull(industry_jobs[k].cost)
        /\ ~IsNull(industry_jobs[k].installer_id)
        /\ r = [character_id   |-> Val(industry_jobs[k].installer_id),
                direction      |-> "in",
                source         |-> "industry",
                contract_id    |-> NULL,
                journal_esi_id |-> NULL,
                value_isk      |-> Centi(Val(industry_jobs[k].cost)),
                note           |-> <<"Industry job", industry_jobs[k].job_id>>]})
    + Cardinality({k \in DOMAIN market_orders :
        /\ CreditedOrder(market_orders[k])
        /\ r = [character_id   |-> Val(market_orders[k].issued_by),
                direction      |-> "in",
                source         |-> "market",
                contract_id    |-> NULL,
                journal_esi_id |-> NULL,
                value_isk      |-> SoldVolume(market_orders[k])
                                       * Val(market_orders[k].price),
                note           |-> <<"Market sell order", market_orders[k].order_id,
                                     SoldVolume(market_orders[k]),
                                     Val(market_orders[k].price)>>]})

\* how many records the five rules derive from the source tables
DerivedTotal ==
    Cardinality({k \in DOMAIN donations :
        ~IsNull(donations[k].character_id) /\ ~IsNull(donations[k].amount)})
    + Cardinality({k \in DOMAIN contracts : DonationContract(contracts[k])})
    + 2 * Cardinality({k \in DOMAIN contracts : SubsidisedContract(contracts[k])})
    + Cardinality({k \in DOMAIN industry_jobs :
        /\ industry_jobs[k].status = "delivered"
        /\ ~IsNull(industry_jobs[k].cost)
        /\ ~IsNull(industry_jobs[k].installer_id)})
    + Cardinality({k \in DOMAIN market_orders : CreditedOrder(market_orders[k])})

\* C4: total replacement.  The ledger a rebuild commits holds exactly the
\* records the five rules derive from the source tables as they are at that
\* rebuild, each as often as it is derived; a record of the prior ledger
\* that no rule derives any more is absent from it.
C4_TotalReplacement ==
    [][(pc = "market" /\ pc' = "idle" /\ member_flows' = txn_flows)
          => /\ Len(member_flows') = DerivedTotal
             /\ \A r \in Range(member_flows') :
                   Count(member_flows', r) = DerivedCount(r)
             /\ \A r \in Range(member_flows) :
                   DerivedCount(r) = 0 => r \notin Range(member_flows')]_vars

\* all five rules have run over sources that no longer yield a record of the
\* committed ledger, which the commit is about to replace
C4_Witness ==
    /\ pc = "market"
    /\ txn_flows # <<>>
    /\ \E r \in Range(member_flows) : DerivedCount(r) = 0 /\ r \notin Range(txn_flows)

\* C10: no double translation.  No two ledger records carry the same
\* contract-rule tag and reference the same contract, and no two wallet
\* records reference the same journal entry.
C10_NoDoubleTranslation ==
    \A i, j \in DOMAIN member_flows :
        i # j /\ member_flows[i].source = member_flows[j].source =>
            /\ member_flows[i].source
                   \in {"contract_in", "contract_out", "contract_out_subsidy"}
               => member_flows[i].contract_id # member_flows[j].contract_id
            /\ member_flows[i].source = "wallet"
               => member_flows[i].journal_esi_id # member_flows[j].journal_esi_id

\* a ledger in which one contract is translated under all three contract
\* rules, once each, beside a wallet record
C10_Witness ==
    /\ \E id \in ExtIds :
          /\ Cardinality(ContractFlows("contract_in", id)) = 1
          /\ Cardinality(ContractFlows("contract_out", id)) = 1
          /\ Cardinality(ContractFlows("contract_out_subsidy", id)) = 1
    /\ \E i \in DOMAIN member_flows : member_flows[i].source = "wallet"

(***************************************************************************)
(* Appraisal and the ledger (checked under Spec)                           *)
(***************************************************************************)
ContractTags == {"contract_in", "contract_out", "contract_out_subsidy"}

\* the rows of a ledger that a contract rule derived from a given contract
ContractRecords(flows, contract_id) ==
    {i \in DOMAIN flows : /\ flows[i].source \in ContractTags
                          /\ flows[i].contract_id = Some(contract_id)}

\* C11: a contract whose appraisal is absent (no key configured, the call
\* failed, no included items, or no value in the answer) has no contract_in,
\* contract_out or contract_out_subsidy record, neither in the committed
\* ledger nor in a rebuild under way; and the ledger a rebuild committed from
\* the present tables holds, for every contract with a stored appraisal, the
\* records of each rule it qualifies for.
C11_ExcludedUntilAppraised ==
    /\ \A k \in DOMAIN contracts :
          IsNull(contracts[k].janice_immediate_split) =>
              /\ ContractRecords(member_flows, contracts[k].contract_id) = {}
              /\ ContractRecords(txn_flows, contracts[k].contract_id) = {}
    /\ ledger_state = "current" =>
          \A k \in DOMAIN contracts :
              LET c == contracts[k]
              IN ~IsNull(c.janice_immediate_split) =>
                    /\ DonationContract(c) =>
                          Cardinality(ContractFlows("contract_in", c.contract_id)) = 1
                    /\ SubsidisedContract(c) =>
                          /\ Cardinality(ContractFlows("contract_out", c.contract_id)) = 1
                          /\ Cardinality(ContractFlows("contract_out_subsidy",
                                                       c.contract_id)) = 1

\* a committed ledger over one contract still unappraised, with no record,
\* and one appraised since its sync, with the record of its rule
C11_Witness ==
    /\ ledger_state = "current"
    /\ \E k \in DOMAIN contracts :
          /\ IsNull(contracts[k].janice_immediate_split)
          /\ ContractRecords(member_flows, contracts[k].contract_id) = {}
    /\ \E k \in DOMAIN contracts :
          /\ ~IsNull(contracts[k].janice_immediate_split)
          /\ ContractRecords(member_flows, contracts[k].contract_id) # {}

(***************************************************************************)
(* Failures of external calls in list-contracts (checked under SpecList)   *)
(***************************************************************************)
\* C12: whatever the external calls of janice_appraise_contract come to, the
\* call returns to cmd_list_contracts, which goes on to the next contract of
\* its batch, and no stored appraisal changes but that of the contract at
\* hand, from NULL.
C12_RecoveredLocally ==
    [][list_pc = "janice" =>
          /\ list_pc' # "aborted"
          /\ list_todo' = Tail(list_todo)
          /\ \A k \in DOMAIN contracts :
                \/ contracts'[k] = contracts[k]
                \/ /\ contracts[k].contract_id = Head(list_todo).contract_id
                   /\ IsNull(contracts[k].janice_immediate_split)]_vars

(***************************************************************************)
(* Properties of the aggregation (checked under SpecReports, C15 under     *)
(* Spec)                                                                   *)
(***************************************************************************)
\* the sum of the values of the rows of a ledger at the positions S
RECURSIVE SumOver(_, _)
SumOver(flows, S) ==
    IF S = {} THEN 0
    ELSE LET i == CHOOSE i \in S : TRUE
         IN flows[i].value_isk + SumOver(flows, S \ {i})

\* the sum of the values of the ledger's records of one direction
DirectionValue(direction) ==
    SumOver(member_flows,
            {i \in DOMAIN member_flows : member_flows[i].direction = direction})

\* the same for the records of one member
MemberValue(m, direction) ==
    SumOver(member_flows,
            {i \in DOMAIN member_flows :
                /\ member_flows[i].character_id = m
                /\ member_flows[i].direction = direction})

\* C13: the dashboard's (total_in, total_out, net) are the sum of the values
\* of the 'in' records, the sum of the values of the 'out' records, and the
\* first minus the second; over an empty ledger they are (0, 0, 0).
C13_FlowTotals ==
    report.cmd = "dashboard" =>
        /\ report.totals[1] = DirectionValue("in")
        /\ report.totals[2] = DirectionValue("out")
        /\ report.totals[3] = report.totals[1] - report.totals[2]
        /\ member_flows = <<>> => report.totals = <<0, 0, 0>>

\* a dashboard over a ledger with records of both directions
C13_Witness ==
    /\ report.cmd = "dashboard"
    /\ report.totals[1] > 0
    /\ report.totals[2] > 0
    /\ report.totals[3] # report.totals[1]

\* C14: the dataset has one line for each member with at least one ledger
\* record and no other line, each with the member's 'in' values minus the
\* member's 'out' values; over an empty ledger it has no line.
C14_MemberNetValues ==
    report.cmd = "export-dataset" =>
        /\ {report.rows[i].character_id : i \in DOMAIN report.rows}
               = {member_flows[i].character_id : i \in DOMAIN member_flows}
        /\ \A i, j \in DOMAIN report.rows :
              i # j => report.rows[i].character_id # report.rows[j].character_id
        /\ \A i \in DOMAIN report.rows :
              report.rows[i].value
                  = MemberValue(report.rows[i].character_id, "in")
                    - MemberValue(report.rows[i].character_id, "out")
        /\ member_flows = <<>> => report.rows = <<>>

\* a dataset with a member of positive and a member of negative net value, and
\* fewer lines than the ledger has records
C14_Witness ==
    /\ report.cmd = "export-dataset"
    /\ \E i \in DOMAIN report.rows : report.rows[i].value > 0
    /\ \E i \in DOMAIN report.rows : report.rows[i].value < 0
    /\ Len(report.rows) < Len(member_flows)

\* the sum of the values of a mapping
RECURSIVE SumOfValues(_)
SumOfValues(f) ==
    IF DOMAIN f = {} THEN 0
    ELSE LET m == CHOOSE m \in DOMAIN f : TRUE
         IN f[m] + SumOfValues([n \in DOMAIN f \ {m} |-> f[n]])

\* C15: totals consistency.  Over every committed ledger, the net of
\* get_flow_totals is the sum of the values of get_member_net_values.
C15_TotalsConsistency ==
    get_flow_totals(member_flows)[3]
        = SumOfValues(get_member_net_values(member_flows))

\* a ledger with records of two members and of both directions
C15_Witness ==
    /\ \E i, j \in DOMAIN member_flows :
          member_flows[i].character_id # member_flows[j].character_id
    /\ \E i \in DOMAIN member_flows : member_flows[i].direction = "out"
    /\ \E i \in DOMAIN member_flows : member_flows[i].source = "wallet"

\* equality of two quotients of the same dividend and positive divisors, or
\* of the zero quotient with one of them
SameQuotient(p, q) == (p[1] = 0 /\ q[1] = 0) \/ p = q

\* C16: share conversion.  With the share unit of the loaded configuration
\* positive, the shares printed are the net value over that unit; with it
\* zero or negative they are 0 whatever the net value; and no division by
\* zero happens.  For the dashboard's total and for every line of the dataset.
C16_ShareConversion ==
    LET unit == load_config(share_unit_isk)
        Converted(shares, value) ==
            /\ shares[2] # 0
            /\ unit > 0 => SameQuotient(shares, <<value, unit>>)
            /\ unit <= 0 => shares[1] = 0
    IN /\ report.cmd = "dashboard" =>
              Converted(report.total_shares, report.totals[3])
       /\ report.cmd = "export-dataset" =>
              \A i \in DOMAIN report.rows :
                  Converted(report.rows[i].shares, report.rows[i].value)

\* C17: the share unit is configuration.  The shares printed by a dashboard
\* or export-dataset run are the net value over the share_unit_isk of the
\* configuration that run loaded, 1,000,000,000 when the option is absent.
C17_ConfiguredShareUnit ==
    LET unit == load_config(share_unit_isk)
    IN unit > 0 =>
          /\ report.cmd = "dashboard" =>
                SameQuotient(report.total_shares, <<report.totals[3], unit>>)
          /\ report.cmd = "export-dataset" =>
                \A i \in DOMAIN report.rows :
                    SameQuotient(report.rows[i].shares,
                                 <<report.rows[i].value, unit>>)

Kept(tbl, next) == \A i \in DOMAIN tbl : \E j \in DOMAIN next : next[j] = tbl[i]

\* a contract row without the column that no sync writes
Synced(c) == [c EXCEPT !.janice_immediate_split = NULL]

\* as a table
SyncedRows(tbl) == [i \in DOMAIN tbl |-> Synced(tbl[i])]

\* the table next is tbl followed by rows of new ids
Appended(tbl, next, Id(_)) ==
    /\ Len(next) >= Len(tbl)
    /\ \A i \in DOMAIN tbl : next[i] = tbl[i]
    /\ \A j \in DOMAIN next :
          j > Len(tbl) => \A i \in DOMAIN tbl : Id(tbl[i]) # Id(next[j])

JournalId(e) == e.esi_id

ContractId(c) == c.contract_id

JobId(j) == j.job_id

\* C19 as stated: no step deletes a row of wallet_journal, contracts,
\* industry_jobs or market_orders or changes one of its synchronized fields.
C19_AppendOnly ==
    [][/\ Kept(wallet_journal, wallet_journal')
       /\ Kept(SyncedRows(contracts), SyncedRows(contracts'))
       /\ Kept(industry_jobs, industry_jobs')
       /\ Kept(market_orders, market_orders')]_vars

\* C19 as amended: every step leaves the rows of wallet_journal, contracts
\* (in their synchronized fields) and industry_jobs as they are and at most
\* appends rows of external ids not yet stored; an order id stored in
\* market_orders stays stored, though its row may be replaced.
C19_AppendOnlyButOrders ==
    [][/\ Appended(wallet_journal, wallet_journal', JournalId)
       /\ Appended(SyncedRows(contracts), SyncedRows(contracts'), ContractId)
       /\ Appended(industry_jobs, industry_jobs', JobId)
       /\ \A i \in DOMAIN market_orders :
             \E j \in DOMAIN market_orders' :
                 market_orders'[j].order_id = market_orders[i].order_id]_vars

\* a job stored as active and an order whose open-snapshot row a later sync
\* replaced by its history row
C19_Witness ==
    /\ \E i \in DOMAIN industry_jobs : industry_jobs[i].status = "active"
    /\ \E i \in DOMAIN market_orders : market_orders[i].is_history = 1

\* the Donation rows of a journal entry
DonationsOf(tbl, e) == {i \in DOMAIN tbl : tbl[i].journal_esi_id = e.esi_id}

\* one Donation row for each donation-tagged entry, with its donor, amount
\* and memo, and none for any other entry or for no entry
OneToOne(journal, tbl) ==
    /\ \A k \in DOMAIN journal :
          IF journal[k].ref_type = "player_donation"
          THEN /\ Cardinality(DonationsOf(tbl, journal[k])) = 1
               /\ \A i \in DonationsOf(tbl, journal[k]) :
                     /\ tbl[i].character_id = journal[k].first_party_id
                     /\ tbl[i].amount = journal[k].amount
                     /\ tbl[i].description = DonationOf(journal[k]).description
          ELSE DonationsOf(tbl, journal[k]) = {}
    /\ \A i \in DOMAIN tbl :
          \E k \in DOMAIN journal : journal[k].esi_id = tbl[i].journal_esi_id

\* C20: donation derivation is idempotent and 1:1.  A step that inserts
\* Donation rows leaves exactly one for each stored donation-tagged journal
\* entry and none for any other; at no time has an entry two Donation rows
\* or an entry of another type one; with a Donation row stored for every
\* donation-tagged entry no step inserts one; and no step changes or deletes
\* a Donation row.
C20_DonationsOneToOne ==
    [][/\ donations' # donations => OneToOne(wallet_journal', donations')
       /\ \A k \in DOMAIN wallet_journal' :
             /\ Cardinality(DonationsOf(donations', wallet_journal'[k])) <= 1
             /\ wallet_journal'[k].ref_type # "player_donation" =>
                   DonationsOf(donations', wallet_journal'[k]) = {}
       /\ OneToOne(wallet_journal, donations) /\ wallet_journal' = wallet_journal
             => donations' = donations
       /\ \A i \in DOMAIN donations :
             i \in DOMAIN donations' /\ donations'[i] = donations[i]]_vars

\* a journal with a donation and an entry of another type, and the one
\* Donation row
C20_Witness ==
    /\ Len(wallet_journal) = 2
    /\ \E k \in DOMAIN wallet_journal : wallet_journal[k].ref_type = "bounty_prizes"
    /\ Len(donations) = 1
    /\ OneToOne(wallet_journal, donations)

(***************************************************************************)
(* Shape of the ledger's records and the contract rules together           *)
(***************************************************************************)
SourceTags ==
    {"wallet", "contract_in", "contract_out", "contract_out_subsidy",
     "industry", "market"}

\* the shape of one record
RecordShape(f) ==
    /\ f.character_id \in Int
    /\ f.direction \in {"in", "out"}
    /\ f.source \in SourceTags
    /\ f.direction = "out" <=> f.source = "contract_out"

\* C21: Flow Record shape.  In the committed ledger and in the ledger of a
\* running rebuild every record has a member id, direction 'in' or 'out' and
\* one of the six source tags, and its direction is 'out' exactly when its
\* tag is contract_out.
C21_RecordShape ==
    /\ \A i \in DOMAIN member_flows : RecordShape(member_flows[i])
    /\ \A i \in DOMAIN txn_flows : RecordShape(txn_flows[i])

\* a committed ledger with a record out and a record in of another tag
C21_Witness ==
    /\ pc = "idle"
    /\ \E i \in DOMAIN member_flows : member_flows[i].direction = "out"
    /\ \E i \in DOMAIN member_flows : member_flows[i].source = "contract_out_subsidy"
    /\ \E i \in DOMAIN member_flows : member_flows[i].source = "contract_in"

\* C22: donation contracts and subsidy contracts are disjoint.  In the
\* committed ledger a contract with contract_out or contract_out_subsidy
\* records has price > 0, a contract with a contract_in record has price null
\* or 0, and no contract has records of both kinds.
C22_DisjointContractRules ==
    \A k \in DOMAIN contracts :
        LET c      == contracts[k]
            in     == ContractFlows("contract_in", c.contract_id)
            out    == ContractFlows("contract_out", c.contract_id)
            credit == ContractFlows("contract_out_subsidy", c.contract_id)
        IN /\ out # {} \/ credit # {} => ~IsNull(c.price) /\ Val(c.price) > 0
           /\ in # {} => IsNull(c.price) \/ Val(c.price) = 0
           /\ ~(in # {} /\ (out # {} \/ credit # {}))

\* C23: every contract_in record of the committed ledger references an
\* organization-directed contract (for_corporation = 1).
C23_ContractInForCorporation ==
    \A i \in DOMAIN member_flows :
        member_flows[i].source = "contract_in" =>
            \A k \in DOMAIN contracts :
                member_flows[i].contract_id = Some(contracts[k].contract_id) =>
                    contracts[k].for_corporation = 1

(***************************************************************************)
(* Contracts and jobs whose status changes between feeds: the contract and *)
(* job commands on an initially empty database                             *)
(***************************************************************************)
\* a zero-price contract with one included item, reported as outstanding or
\* as finished
StatusContractFeed ==
    [contract_id : ExtIds, issuer_id : {Some(1)}, assignee_id : {Some(2)},
     status : {"outstanding", "finished"}, for_corporation : {Some(TRUE)},
     price : {Some(0)}, items : ItemFeeds \ {<<>>}]

NextStatus ==
    \/ \E data \in Feeds(StatusContractFeed) : sync_contracts(data)
    \/ \E contract_id \in ExtIds, api_key \in BOOLEAN, esi \in EsiOutcomes,
          raises \in BOOLEAN, answer \in AppraisalAnswers :
          janice_appraise_contract(contract_id, api_key, esi, raises, answer)
    \/ \E data \in Feeds(JobFeed) : sync_industry_jobs(data)
    \/ rebuild_member_flows

SpecStatus == Init /\ [][NextStatus]_vars

\* the industry records of a ledger whose note names a given job
JobRecords(flows, job_id) ==
    {i \in DOMAIN flows : /\ flows[i].source = "industry"
                          /\ flows[i].note[2] = job_id}

\* C24: stored lifecycle status is frozen at first sync.  No step changes a
\* synchronized field of a stored contract or a field of a stored job; a
\* step that writes a contract's appraisal column stores no row.  So the
\* status a row holds is the one it was first stored with, and after every
\* step a contract whose stored status is not 'finished' has no contract_in,
\* contract_out or contract_out_subsidy record, and a job whose stored status
\* is not 'delivered' has no industry record, in the committed ledger and in
\* the ledger of a running rebuild.
C24_StatusFrozen ==
    [][/\ \A i \in DOMAIN contracts :
             /\ i \in DOMAIN contracts'
             /\ Synced(contracts'[i]) = Synced(contracts[i])
             /\ contracts'[i] # contracts[i] =>
                   /\ Len(contracts') = Len(contracts)
                   /\ industry_jobs' = industry_jobs
       /\ \A i \in DOMAIN industry_jobs :
             /\ i \in DOMAIN industry_jobs'
             /\ industry_jobs'[i] = industry_jobs[i]
       /\ \A i \in DOMAIN contracts' :
             contracts'[i].status # "finished" =>
                 /\ ContractRecords(member_flows', contracts'[i].contract_id) = {}
                 /\ ContractRecords(txn_flows', contracts'[i].contract_id) = {}
       /\ \A i \in DOMAIN industry_jobs' :
             industry_jobs'[i].status # "delivered" =>
                 /\ JobRecords(member_flows', industry_jobs'[i].job_id) = {}
                 /\ JobRecords(txn_flows', industry_jobs'[i].job_id) = {}]_vars

\* a rebuild has committed a ledger from a contract stored as outstanding
\* and appraised since, and a job stored as active
C24_Witness ==
    /\ pc = "idle"
    /\ ledger_state = "current"
    /\ \E i \in DOMAIN contracts :
          /\ contracts[i].status = "outstanding"
          /\ ~IsNull(contracts[i].janice_immediate_split)
    /\ \E i \in DOMAIN industry_jobs : industry_jobs[i].status = "active"

====
